---- MODULE Spec2Model ----
(***************************************************************************)
(* A model of systemheaven.py: expandvars, the sh() pipeline builder and   *)
(* the Pipeline handle, over the child processes that Popen creates.       *)
(*                                                                         *)
(* A Python str is a sequence of one-character strings, so that            *)
(* str.split("|"), str.split() and str.startswith("$") are computed and    *)
(* not assumed.  A binding value is tagged: [str |-> s] for a str and      *)
(* [list |-> ws] for a sequence of str (isinstance(value, str)).           *)
(***************************************************************************)
EXTENDS Integers, Sequences, FiniteSets, TLC

\* ------------------------------------------------------------------ bounds
MaxLen == 4
MaxCalls == 2

Alphabet == {"a", "$", " ", "|"}
ExitCodes == {0, 1}

\* The reserved keyword arguments of sh (lines 94-95).
CwdKey == <<"_", "c", "w", "d">>
EnvKey == <<"_", "e", "n", "v">>

\* Pipeline strings that name a reserved key as a variable.
ReservedPipelines == {<<"$">> \o CwdKey, <<"$">> \o EnvKey}

Strings == UNION {[1..n -> Alphabet] : n \in 0..MaxLen} \cup ReservedPipelines

\* ------------------------------------------------------------- str methods
EmptyStr == <<>>

\* str.split("|"): the pieces between the separators, scanned left to right;
\* `cur` is the piece being read and `out` the pieces already cut.
RECURSIVE ScanPipe(_, _, _, _)
ScanPipe(s, k, cur, out) ==
    IF k > Len(s) THEN Append(out, cur)
    ELSE IF s[k] = "|" THEN ScanPipe(s, k + 1, <<>>, Append(out, cur))
    ELSE ScanPipe(s, k + 1, Append(cur, s[k]), out)

SplitPipe(s) == ScanPipe(s, 1, <<>>, <<>>)

IsSpace(c) == c = " "

\* str.split(): the maximal runs of non-whitespace characters, scanned left
\* to right; `cur` is the run being read and `out` the words already cut.
RECURSIVE ScanWords(_, _, _, _)
ScanWords(s, k, cur, out) ==
    IF k > Len(s) THEN (IF cur = <<>> THEN out ELSE Append(out, cur))
    ELSE IF IsSpace(s[k])
         THEN ScanWords(s, k + 1, <<>>,
                        IF cur = <<>> THEN out ELSE Append(out, cur))
         ELSE ScanWords(s, k + 1, Append(cur, s[k]), out)

SplitWords(s) == ScanWords(s, 1, <<>>, <<>>)

StartsWithDollar(word) == Len(word) > 0 /\ word[1] = "$"

\* --------------------------------------------------------------- bindings
Str(s) == [str |-> s]
List(ws) == [list |-> ws]
IsStr(value) == "str" \in DOMAIN value

VarA == <<"a">>

BindingValues ==
    { Str(EmptyStr), Str(<<"a">>), Str(<<"a", " ", "|">>),
      List(<<>>), List(<<<<"a">>, EmptyStr>>) }

NoBindings == [n \in {} |-> Str(EmptyStr)]

\* sh(..., _cwd="a", _env={"a": ...}).  A dict is not a str, and
\* list.extend(dict) appends its keys, so the mapping is held as its keys.
ReservedBindings ==
    [n \in {CwdKey, EnvKey} |->
        IF n = CwdKey THEN Str(<<"a">>) ELSE List(<<<<"a">>>>)]

Bindings ==
    {NoBindings, ReservedBindings}
    \cup {[n \in {VarA} |-> v] : v \in BindingValues}

\* Python's None as the default of kwargs.get(key, None).
NoValue == [none |-> TRUE]

Get(kw, name, default) == IF name \in DOMAIN kw THEN kw[name] ELSE default

\* ------------------------------------------------------------- expandvars
\* (variant: a str value is split into words again)
ExpandWordResplit(word, kw) ==
    IF StartsWithDollar(word)
    THEN LET value == Get(kw, SubSeq(word, 2, Len(word)), Str(EmptyStr))
         IN  IF IsStr(value) THEN SplitWords(value.str) ELSE value.list
    ELSE <<word>>

\* (variant: an unbound name expands to no word at all)
ExpandWordDropMissing(word, kw) ==
    IF StartsWithDollar(word)
    THEN LET value == Get(kw, SubSeq(word, 2, Len(word)), List(<<>>))
         IN  IF IsStr(value) THEN <<value.str>> ELSE value.list
    ELSE <<word>>

ExpandWord(word, kw) ==
    IF StartsWithDollar(word)
    THEN LET value == Get(kw, SubSeq(word, 2, Len(word)), Str(EmptyStr))
         IN  IF IsStr(value) THEN <<value.str>> ELSE value.list
    ELSE <<word>>

RECURSIVE ExpandLoop(_, _, _, _)
ExpandLoop(words, kw, k, newwords) ==
    IF k > Len(words) THEN newwords
    ELSE ExpandLoop(words, kw, k + 1, newwords \o ExpandWord(words[k], kw))

expandvars(words, kw) == ExpandLoop(words, kw, 1, <<>>)

\* ------------------------------------------------------- Popen collaborator
\* An exit status or a returncode is None (<<>>) or Some(code) (<<code>>).
None == <<>>
Some(c) == <<c>>

\* Stream values: Python's None, subprocess.PIPE, and the two ends that Popen
\* hands back for a pipe it created for child number `of`.
NoStream == [kind |-> "None", of |-> 0]
PIPE == [kind |-> "PIPE", of |-> 0]
WriteEnd(k) == [kind |-> "write", of |-> k]
ReadEnd(k) == [kind |-> "read", of |-> k]

\* Popen(words, stdin=.., stdout=.., cwd=.., env=..) as child number k,
\* spawned for segment i.
Popen(k, i, words, stdinArg, stdoutArg, cwd, env) ==
    [ args       |-> words,
      seg        |-> i,
      cwd        |-> cwd,
      env        |-> env,
      stdin_arg  |-> stdinArg,
      stdout_arg |-> stdoutArg,
      stdin      |-> IF stdinArg = PIPE THEN WriteEnd(k) ELSE NoStream,
      stdout     |-> IF stdoutArg = PIPE THEN ReadEnd(k) ELSE NoStream,
      status     |-> None,
      returncode |-> None ]

\* (variant: waiting again on a reaped child reports status 0)
PopenWaitAgainZero(p) ==
    [p EXCEPT !.returncode = IF p.returncode # None THEN Some(0)
                             ELSE p.status]

\* Popen.wait() on a child that has terminated: the first call reaps it and
\* records the status, later calls return the recorded returncode.
PopenWait(p) ==
    [p EXCEPT !.returncode = IF p.returncode # None THEN p.returncode
                             ELSE p.status]

Last(s) == s[Len(s)]

\* Who holds a stream end open.  The calling process (party 0) holds the
\* file objects p.stdin and p.stdout of every Popen object in procs: the
\* code never closes one.  A running child j holds the stream it was given
\* as stdin, which Popen duplicates onto its descriptor 0.
Caller == 0
CallerHolds(ps, e) ==
    \E k \in 1..Len(ps) : ps[k].stdin = e \/ ps[k].stdout = e
ChildHolds(ps, j, e) == ps[j].status = None /\ ps[j].stdin_arg = e
Holders(ps, e) ==
    (IF CallerHolds(ps, e) THEN {Caller} ELSE {})
    \cup {j \in 1..Len(ps) : ChildHolds(ps, j, e)}

\* ------------------------------------------------------------ sh: the loop
Words(cmds, i) == SplitWords(cmds[i + 1])

\* (variant: head-open tested without len(procs) == 0)
StdinForHeadFirst(hp, ps) ==
    IF hp THEN PIPE
    ELSE IF Len(ps) > 0 THEN Last(ps).stdout
    ELSE NoStream

StdinFor(hp, ps) ==
    IF Len(ps) > 0 THEN Last(ps).stdout
    ELSE IF hp THEN PIPE
    ELSE NoStream

\* (variant: off by one, i < len(commands))
StdoutForOffByOne(i, n) == IF i < n THEN PIPE ELSE NoStream

StdoutFor(i, n) == IF i < n - 1 THEN PIPE ELSE NoStream

LoopState(ps, hp, tp, w) ==
    [procs |-> ps, headpipe |-> hp, tailpipe |-> tp, warnings |-> w]

\* (variant: a lone empty segment opens neither end)
EmptySegmentLoneIgnored(st, i, n) ==
    IF i = 0 /\ n > 1 THEN [st EXCEPT !.headpipe = TRUE]
    ELSE IF i = n - 1 /\ i > 0 THEN [st EXCEPT !.tailpipe = TRUE]
    ELSE [st EXCEPT !.warnings = @ + 1]

\* Body of the for loop when command.split() is empty (lines 70-78).
EmptySegment(st, i, n) ==
    IF i = 0 THEN [st EXCEPT !.headpipe = TRUE]
    ELSE IF i = n - 1 THEN [st EXCEPT !.tailpipe = TRUE]
    ELSE [st EXCEPT !.warnings = @ + 1]

\* (variant: the words are passed to Popen without expansion)
SpawnSegmentUnexpanded(st, i, n, words, kw) ==
    [st EXCEPT !.procs =
        Append(@, Popen(Len(@) + 1, i, words,
                        StdinFor(st.headpipe, @), StdoutFor(i, n),
                        Get(kw, CwdKey, NoValue), Get(kw, EnvKey, NoValue)))]

\* (variant: stdin taken from the process of the adjacent segment i - 1 only)
SpawnSegmentAdjacentOnly(st, i, n, words, kw) ==
    [st EXCEPT !.procs =
        Append(@, Popen(Len(@) + 1, i, expandvars(words, kw),
                        IF Len(@) > 0 /\ Last(@).seg # i - 1 THEN NoStream
                        ELSE StdinFor(st.headpipe, @),
                        StdoutFor(i, n),
                        Get(kw, CwdKey, NoValue), Get(kw, EnvKey, NoValue)))]

\* Body of the for loop when the segment has words and Popen succeeds.
SpawnSegment(st, i, n, words, kw) ==
    [st EXCEPT !.procs =
        Append(@, Popen(Len(@) + 1, i, expandvars(words, kw),
                        StdinFor(st.headpipe, @), StdoutFor(i, n),
                        Get(kw, CwdKey, NoValue), Get(kw, EnvKey, NoValue)))]

\* The whole for loop from index i on, every Popen succeeding.
RECURSIVE RunLoop(_, _, _, _)
RunLoop(cmds, kw, i, st) ==
    IF i >= Len(cmds) THEN st
    ELSE IF Len(Words(cmds, i)) = 0
         THEN RunLoop(cmds, kw, i + 1, EmptySegment(st, i, Len(cmds)))
         ELSE RunLoop(cmds, kw, i + 1,
                      SpawnSegment(st, i, Len(cmds), Words(cmds, i), kw))

\* Popen executes args[0]: an argument vector that is empty (IndexError) or
\* whose first word is the empty string (no such program) cannot be spawned.
Spawnable(args) == Len(args) > 0 /\ args[1] # EmptyStr

\* The position and the streams of the Popen call that the loop makes for
\* segment i in loop state st.
PopenCall(st, i, n) ==
    <<i, StdinFor(st.headpipe, st.procs), StdoutFor(i, n)>>

\* The whole for loop from index i on when Popen fails exactly on the
\* argument vectors that cannot be spawned: the loop state reached, the
\* Popen calls made, and whether the last one raised.
RECURSIVE RunSpawnable(_, _, _, _, _)
RunSpawnable(cmds, kw, i, st, calls) ==
    IF i >= Len(cmds) THEN [st |-> st, calls |-> calls, failed |-> FALSE]
    ELSE IF Len(Words(cmds, i)) = 0
         THEN RunSpawnable(cmds, kw, i + 1, EmptySegment(st, i, Len(cmds)),
                           calls)
         ELSE IF Spawnable(expandvars(Words(cmds, i), kw))
              THEN RunSpawnable(cmds, kw, i + 1,
                                SpawnSegment(st, i, Len(cmds),
                                             Words(cmds, i), kw),
                                Append(calls, PopenCall(st, i, Len(cmds))))
              ELSE [st |-> st,
                    calls |-> Append(calls, PopenCall(st, i, Len(cmds))),
                    failed |-> TRUE]

\* --------------------------------------------------- Pipeline (the handle)
PipelineStdin(ps) == ps[1].stdin
\* (variant: the first process's stdout)
PipelineStdoutOfHead(ps) == ps[1].stdout
PipelineStdout(ps) == Last(ps).stdout
\* (variant: the tail is polled, so a terminated tail shows its status)
PipelineReturncodePolled(ps) == Last(ps).status
PipelineReturncode(ps) == Last(ps).returncode
\* (variant: the first process's returncode)
BlockingReturncodeFirst(ps) == ps[1].returncode
BlockingReturncode(ps) == Last(ps).returncode
OkResult(ret) == ret = Some(0)
\* The process that the wait loop of `for proc in procs` visits after it has
\* visited `done` of them.
\* (variant: right to left)
NextToWaitReversed(ps, done) == Len(ps) - done
NextToWait(ps, done) == done + 1

VARIABLES
    pipeline,   \* sh's first argument
    kwargs,     \* sh's keyword arguments
    commands,   \* pipeline.split("|")
    i,          \* index of the segment the for loop is about to handle
    procs,      \* the list of Popen objects
    headpipe, tailpipe,
    warnings,   \* number of WARNING lines printed to stderr
    pc,         \* "loop", "after", "blockwait", "returned", "handle",
                \* "hwait", "raised"
    error,      \* the exception that ended sh, when pc = "raised"
    retval,     \* what the last completed sh / wait call returned
    hstdin, hstdout,    \* Pipeline.stdin, Pipeline.stdout
    call,       \* the Pipeline method in progress or last completed
    wj,         \* processes already waited on by the wait loop in progress
    waitLog,    \* processes waited on by the current / last wait loop
    okLog,      \* the values successive evaluations of .ok returned
    ncalls,     \* Pipeline methods called so far
    exitOrder   \* the children in the order in which they terminated

vars == <<pipeline, kwargs, commands, i, procs, headpipe, tailpipe, warnings, pc,
          error, retval, hstdin, hstdout, call, wj, waitLog, okLog, ncalls,
          exitOrder>>

inputs == <<pipeline, kwargs, commands>>
loopvars == <<i, procs, headpipe, tailpipe, warnings>>
handlevars == <<hstdin, hstdout>>
callvars == <<call, wj, waitLog, okLog, ncalls>>

loopState == LoopState(procs, headpipe, tailpipe, warnings)

Init ==
    /\ pipeline \in Strings
    /\ kwargs \in Bindings
    /\ commands = SplitPipe(pipeline)
    /\ i = 0
    /\ procs = <<>>
    /\ headpipe = FALSE
    /\ tailpipe = FALSE
    /\ warnings = 0
    /\ pc = "loop"
    /\ error = "none"
    /\ retval = None
    /\ hstdin = NoStream
    /\ hstdout = NoStream
    /\ call = "none"
    /\ wj = 0
    /\ waitLog = <<>>
    /\ okLog = <<>>
    /\ ncalls = 0
    /\ exitOrder = <<>>

SetLoop(st) ==
    /\ procs' = st.procs
    /\ headpipe' = st.headpipe
    /\ tailpipe' = st.tailpipe
    /\ warnings' = st.warnings

\* One iteration of the for loop on a segment without words.
LoopEmpty ==
    /\ pc = "loop"
    /\ i < Len(commands)
    /\ Len(Words(commands, i)) = 0
    /\ SetLoop(EmptySegment(loopState, i, Len(commands)))
    /\ i' = i + 1
    /\ UNCHANGED <<inputs, pc, error, retval, handlevars, callvars, exitOrder>>

\* One iteration of the for loop that spawns a child.
LoopSpawn ==
    /\ pc = "loop"
    /\ i < Len(commands)
    /\ Len(Words(commands, i)) > 0
    /\ Spawnable(expandvars(Words(commands, i), kwargs))
    /\ SetLoop(SpawnSegment(loopState, i, Len(commands),
                            Words(commands, i), kwargs))
    /\ i' = i + 1
    /\ UNCHANGED <<inputs, pc, error, retval, handlevars, callvars, exitOrder>>

\* (variant: the exception is swallowed and the loop goes on)
LoopSpawnFailsContinues ==
    /\ pc = "loop"
    /\ i < Len(commands)
    /\ Len(Words(commands, i)) > 0
    /\ i' = i + 1
    /\ error' = "spawn"
    /\ UNCHANGED <<inputs, procs, headpipe, tailpipe, warnings, pc, retval,
                   handlevars, callvars, exitOrder>>

\* One iteration of the for loop in which Popen raises (no such program, or
\* an empty argument vector): the exception leaves sh.
LoopSpawnFails ==
    /\ pc = "loop"
    /\ i < Len(commands)
    /\ Len(Words(commands, i)) > 0
    /\ pc' = "raised"
    /\ error' = "spawn"
    /\ UNCHANGED <<inputs, loopvars, retval, handlevars, callvars, exitOrder>>

\* Lines 99-100: return Pipeline(procs); Pipeline.__init__ indexes procs.
ReturnPipeline ==
    /\ pc = "loop"
    /\ i = Len(commands)
    /\ headpipe \/ tailpipe
    /\ IF Len(procs) = 0
       THEN /\ pc' = "raised"
            /\ error' = "IndexError"
            /\ UNCHANGED handlevars
       ELSE /\ pc' = "handle"
            /\ hstdin' = PipelineStdin(procs)
            /\ hstdout' = PipelineStdout(procs)
            /\ UNCHANGED error
    /\ UNCHANGED <<inputs, loopvars, retval, callvars, exitOrder>>

\* Lines 102-103: the blocking branch starts its wait loop.
BeginBlocking ==
    /\ pc = "loop"
    /\ i = Len(commands)
    /\ ~(headpipe \/ tailpipe)
    /\ pc' = "blockwait"
    /\ wj' = 0
    /\ waitLog' = <<>>
    /\ UNCHANGED <<inputs, loopvars, error, retval, handlevars, call, okLog,
                   ncalls, exitOrder>>

\* proc.wait() in a wait loop returns once that child has terminated.
WaitStep ==
    LET k == NextToWait(procs, wj) IN
    /\ wj < Len(procs)
    /\ k \in 1..Len(procs)
    /\ procs[k].status # None
    /\ procs' = [procs EXCEPT ![k] = PopenWait(@)]
    /\ wj' = wj + 1
    /\ waitLog' = Append(waitLog, k)

BlockingWait ==
    /\ pc = "blockwait"
    /\ WaitStep
    /\ UNCHANGED <<inputs, i, headpipe, tailpipe, warnings, pc, error, retval,
                   handlevars, call, okLog, ncalls, exitOrder>>

\* Line 104: return procs[-1].returncode
BlockingReturn ==
    /\ pc = "blockwait"
    /\ wj = Len(procs)
    /\ IF Len(procs) = 0
       THEN pc' = "raised" /\ error' = "IndexError" /\ UNCHANGED retval
       ELSE pc' = "returned" /\ retval' = BlockingReturncode(procs)
                             /\ UNCHANGED error
    /\ UNCHANGED <<inputs, loopvars, handlevars, callvars, exitOrder>>

\* The caller invokes Pipeline.wait() or evaluates Pipeline.ok.
CallWait(method) ==
    /\ pc = "handle"
    /\ ncalls < MaxCalls
    /\ pc' = "hwait"
    /\ call' = method
    /\ wj' = 0
    /\ waitLog' = <<>>
    /\ ncalls' = ncalls + 1
    /\ UNCHANGED <<inputs, loopvars, error, retval, handlevars, okLog,
                   exitOrder>>

PipelineWaitStep ==
    /\ pc = "hwait"
    /\ WaitStep
    /\ UNCHANGED <<inputs, i, headpipe, tailpipe, warnings, pc, error, retval,
                   handlevars, call, okLog, ncalls, exitOrder>>

\* return self.returncode (wait), then ret == 0 (ok).
PipelineWaitReturn ==
    /\ pc = "hwait"
    /\ wj = Len(procs)
    /\ pc' = "handle"
    /\ retval' = PipelineReturncode(procs)
    /\ okLog' = IF call = "ok"
                THEN Append(okLog, OkResult(PipelineReturncode(procs)))
                ELSE okLog
    /\ UNCHANGED <<inputs, loopvars, error, handlevars, call, wj, waitLog,
                   ncalls, exitOrder>>

\* The caller reads Pipeline.returncode.
ReadReturncode ==
    /\ pc = "handle"
    /\ ncalls < MaxCalls
    /\ call' = "returncode"
    /\ retval' = PipelineReturncode(procs)
    /\ ncalls' = ncalls + 1
    /\ UNCHANGED <<inputs, loopvars, pc, error, handlevars, wj, waitLog,
                   okLog, exitOrder>>

\* A running child terminates with some exit status.
ProcExit(k, code) ==
    /\ k \in 1..Len(procs)
    /\ procs[k].status = None
    /\ procs' = [procs EXCEPT ![k].status = Some(code)]
    /\ exitOrder' = Append(exitOrder, k)
    /\ UNCHANGED <<inputs, i, headpipe, tailpipe, warnings, pc, error, retval,
                   handlevars, callvars>>

Next ==
    \/ LoopEmpty
    \/ LoopSpawn
    \/ LoopSpawnFails
    \/ ReturnPipeline
    \/ BeginBlocking
    \/ BlockingWait
    \/ BlockingReturn
    \/ CallWait("wait")
    \/ CallWait("ok")
    \/ PipelineWaitStep
    \/ PipelineWaitReturn
    \/ ReadReturncode
    \/ \E k \in 1..Len(procs), code \in ExitCodes : ProcExit(k, code)

Spec == Init /\ [][Next]_vars

\* sh() alone, from its entry to the point where it hands back a Pipeline or
\* starts to wait: the children do not terminate meanwhile.  No step of sh
\* in this range reads a child's status.
NextBuild ==
    \/ LoopEmpty
    \/ LoopSpawn
    \/ LoopSpawnFails
    \/ ReturnPipeline
    \/ BeginBlocking

SpecBuild == Init /\ [][NextBuild]_vars

\* A child as "yes | head -1" has them: one whose stdout is a pipe keeps
\* writing and terminates only when no open read end of that pipe remains;
\* one whose stdout is not a pipe terminates on its own.
PipeExit(k, code) ==
    /\ k \in 1..Len(procs)
    /\ procs[k].stdout_arg = PIPE => Holders(procs, ReadEnd(k)) = {}
    /\ ProcExit(k, code)

\* sh in blocking mode over such children.  The caller's steps and the
\* children run whenever they can.
NextLive ==
    \/ LoopEmpty
    \/ LoopSpawn
    \/ LoopSpawnFails
    \/ ReturnPipeline
    \/ BeginBlocking
    \/ BlockingWait
    \/ BlockingReturn
    \/ \E k \in 1..Len(procs), code \in ExitCodes : PipeExit(k, code)

SpecLive == Init /\ [][NextLive]_vars /\ WF_vars(NextLive)

TypeOK ==
    /\ pc \in {"loop", "blockwait", "returned", "handle", "hwait", "raised"}
    /\ i \in 0..Len(commands)
    /\ Len(procs) <= Len(commands)

\* ------------------------------------------------------------- properties
LoopDone == pc # "loop" /\ i = Len(commands)
InOrder(n) == [k \in 1..n |-> k]
Reaped(p) == p.status # None /\ p.returncode = p.status
HasHandle == pc \in {"handle", "hwait"}
FirstSegmentEmpty == Len(Words(commands, 0)) = 0
LastSegmentEmpty == Len(Words(commands, Len(commands) - 1)) = 0

\* C1: in blocking mode sh returns only after every spawned process has been
\* waited on, in left-to-right order, and it returns the exit status of the
\* last spawned process, whatever the statuses of the upstream processes.
C1_BlockingReturnsTailStatus ==
    /\ pc = "blockwait" => retval = None /\ waitLog = InOrder(wj)
    /\ pc = "returned" =>
        /\ ~headpipe /\ ~tailpipe
        /\ waitLog = InOrder(Len(procs))
        /\ \A k \in 1..Len(procs) : Reaped(procs[k])
        /\ retval = Last(procs).status

\* "false | true": the upstream process failed and sh returned success.
C1_Witness ==
    /\ pc = "returned"
    /\ Len(procs) = 2
    /\ procs[1].status = Some(1)
    /\ retval = Some(0)

\* C2: when every spawn succeeds, sh returns a Pipeline handle whenever
\* head-open or tail-open was recorded (also when zero processes were
\* spawned, as for "|"), and otherwise blocks and returns an exit code.
C2_HandleIffOpen ==
    LoopDone =>
        IF headpipe \/ tailpipe THEN HasHandle
        ELSE pc \in {"blockwait", "returned"}

\* C3: the first spawned process gets a fresh caller-writable pipe as stdin
\* iff head-open is set (segment 0 has no words) and otherwise inherits the
\* caller's stdin; every later process gets exactly the stdout stream of the
\* process spawned just before it, and that stream is a pipe.
C3_InputWiring ==
    /\ Len(procs) >= 1 =>
        LET open == FirstSegmentEmpty
        IN  /\ procs[1].stdin_arg = PIPE <=> headpipe
            /\ headpipe <=> open
            /\ procs[1].stdin_arg = (IF open THEN PIPE ELSE NoStream)
            /\ procs[1].stdin = (IF open THEN WriteEnd(1) ELSE NoStream)
    /\ \A k \in 2..Len(procs) :
        /\ procs[k].stdin_arg = procs[k - 1].stdout
        /\ procs[k].stdin_arg = ReadEnd(k - 1)
        /\ procs[k].stdin = NoStream

\* "|a|a": head-open, and a second process reading the first one's pipe.
C3_Witness ==
    /\ Len(procs) >= 2
    /\ procs[1].stdin_arg = PIPE
    /\ procs[2].stdin_arg = ReadEnd(1)

\* C4: every spawned process that is followed by another spawned process
\* has its stdout captured as a pipe; the last spawned process has a
\* caller-readable pipe as stdout iff tail-open is set (the last raw segment
\* has no words) and otherwise inherits the caller's stdout.
C4_OutputWiring ==
    /\ \A k \in 1..(Len(procs) - 1) :
        procs[k].stdout_arg = PIPE /\ procs[k].stdout = ReadEnd(k)
    /\ (LoopDone /\ Len(procs) >= 1) =>
        LET open == LastSegmentEmpty
        IN  /\ Last(procs).stdout_arg = PIPE <=> tailpipe
            /\ tailpipe <=> open
            /\ Last(procs).stdout_arg = (IF open THEN PIPE ELSE NoStream)
            /\ Last(procs).stdout = (IF open THEN ReadEnd(Len(procs))
                                     ELSE NoStream)

\* "a|a|": two processes and an open tail.
C4_Witness ==
    /\ LoopDone
    /\ Len(procs) >= 2
    /\ tailpipe
    /\ Last(procs).stdout_arg = PIPE

\* The pipeline string with its interior segments without words removed.
IsInteriorEmpty(cmds, j) ==
    j # 0 /\ j # Len(cmds) - 1 /\ Len(Words(cmds, j)) = 0

RECURSIVE DropInteriorFrom(_, _)
DropInteriorFrom(cmds, j) ==
    IF j >= Len(cmds) THEN <<>>
    ELSE (IF IsInteriorEmpty(cmds, j) THEN <<>> ELSE <<cmds[j + 1]>>)
         \o DropInteriorFrom(cmds, j + 1)

RECURSIVE JoinPipe(_)
JoinPipe(segs) ==
    IF Len(segs) = 0 THEN EmptyStr
    ELSE IF Len(segs) = 1 THEN segs[1]
    ELSE segs[1] \o <<"|">> \o JoinPipe(Tail(segs))

WithoutInteriorEmpty(s) == JoinPipe(DropInteriorFrom(SplitPipe(s), 0))

Wiring(ps) ==
    [k \in 1..Len(ps) |->
        <<ps[k].args, ps[k].stdin_arg, ps[k].stdout_arg,
          ps[k].stdin, ps[k].stdout>>]

\* C5: an interior segment without words spawns no process and prints one
\* warning, and the process list and the stream wiring are those built from
\* the same string with its interior empty segments removed.
C5_InteriorEmptyBridged ==
    LoopDone =>
        LET clean == WithoutInteriorEmpty(pipeline)
            other == RunLoop(SplitPipe(clean), kwargs, 0,
                             LoopState(<<>>, FALSE, FALSE, 0))
        IN  /\ warnings = Cardinality({j \in 0..(Len(commands) - 1) :
                                         IsInteriorEmpty(commands, j)})
            /\ other.warnings = 0
            /\ Wiring(procs) = Wiring(other.procs)
            /\ headpipe = other.headpipe
            /\ tailpipe = other.tailpipe
            /\ \A k \in 1..Len(procs) :
                 ~IsInteriorEmpty(commands, procs[k].seg)

\* "a||a": one warning, two processes, the second fed by the first.
C5_Witness ==
    /\ LoopDone
    /\ warnings = 1
    /\ Len(procs) = 2
    /\ procs[2].seg = 2
    /\ procs[2].stdin_arg = ReadEnd(1)

\* C6: for the zero-length string sh records head-open and tail-open, spawns
\* no process and completes without raising.
C6_EmptyStringBothOpen ==
    (pipeline = EmptyStr /\ pc # "loop") =>
        /\ headpipe /\ tailpipe
        /\ procs = <<>>
        /\ pc # "raised"

WaitReturned == pc = "handle" /\ call \in {"wait", "ok"}

\* C7: Pipeline.wait() waits on every owned process in left-to-right order,
\* whatever the order in which they terminated, and returns the exit status
\* of the tail process even when upstream processes failed.
C7_WaitInOrderTailStatus ==
    /\ pc = "hwait" => waitLog = InOrder(wj)
    /\ WaitReturned =>
        /\ waitLog = InOrder(Len(procs))
        /\ \A k \in 1..Len(procs) : Reaped(procs[k])
        /\ retval = Last(procs).status

\* wait() returned success although the head failed, and the tail had
\* terminated before the head did.
C7_Witness ==
    /\ pc = "handle"
    /\ call = "wait"
    /\ Len(procs) = 2
    /\ exitOrder = <<2, 1>>
    /\ procs[1].status = Some(1)
    /\ retval = Some(0)

\* C8: on every returned handle, stdin is present iff head-open was
\* requested and stdout is present iff tail-open was requested; stdin is
\* the write end feeding the first process and stdout the read end of the
\* last process's output.
C8_HandleStreams ==
    HasHandle =>
        /\ hstdin # NoStream <=> headpipe
        /\ hstdout # NoStream <=> tailpipe
        /\ headpipe <=> FirstSegmentEmpty
        /\ tailpipe <=> LastSegmentEmpty
        /\ headpipe => hstdin = WriteEnd(1) /\ procs[1].stdin_arg = PIPE
        /\ tailpipe => /\ hstdout = ReadEnd(Len(procs))
                       /\ Last(procs).stdout_arg = PIPE

\* "|a|a": a handle with a writable stdin and no stdout.
C8_Witness ==
    /\ HasHandle
    /\ Len(procs) = 2
    /\ hstdin = WriteEnd(1)
    /\ hstdout = NoStream

\* What one word stands for, read off the bindings.
WordMeaning(word) ==
    IF Len(word) = 0 \/ word[1] # "$" THEN <<word>>
    ELSE LET name == Tail(word)
         IN  IF name \notin DOMAIN kwargs THEN <<EmptyStr>>
             ELSE IF IsStr(kwargs[name]) THEN <<kwargs[name].str>>
             ELSE kwargs[name].list

RECURSIVE ConcatMeanings(_)
ConcatMeanings(words) ==
    IF words = <<>> THEN <<>>
    ELSE ConcatMeanings(SubSeq(words, 1, Len(words) - 1))
         \o WordMeaning(Last(words))

\* C9: expandvars returns the in-order concatenation of the per-word
\* expansions: a plain word is itself; $name bound to a str is that one
\* str, even when empty; $name bound to a sequence is all its elements;
\* $name not bound is exactly one empty-string word.
C9_ExpandConcatenates ==
    /\ \A j \in 0..(Len(commands) - 1) :
        LET words == Words(commands, j)
        IN  /\ expandvars(words, kwargs) = ConcatMeanings(words)
            /\ \A k \in 0..Len(words) :
                 expandvars(words, kwargs) =
                     expandvars(SubSeq(words, 1, k), kwargs)
                     \o expandvars(SubSeq(words, k + 1, Len(words)), kwargs)
    /\ \A k \in 1..Len(procs) :
        procs[k].args = ConcatMeanings(Words(commands, procs[k].seg))

\* "a $" spawned with two arguments, the second the empty string of the
\* unbound name; and "$a" spawned with the two elements of a sequence.
C9_Witness ==
    \/ /\ Len(procs) = 1
       /\ Words(commands, procs[1].seg) = <<<<"$", "a">>>>
       /\ procs[1].args = <<<<"a">>, EmptyStr>>
    \/ /\ Len(procs) = 1
       /\ kwargs = NoBindings
       /\ Words(commands, procs[1].seg) = <<<<"a">>, <<"$", "a">>>>
       /\ procs[1].args = <<<<"a">>, EmptyStr>>

\* C10: every evaluation of ok on one handle returns the same boolean, true
\* exactly when the tail's exit status is 0, and a later evaluation does not
\* raise although every process was reaped by the first one.
C10_OkIdempotent ==
    /\ \A m, n \in 1..Len(okLog) : okLog[m] = okLog[n]
    /\ \A m \in 1..Len(okLog) : okLog[m] = (Last(procs).status = Some(0))
    /\ HasHandle => error = "none"

\* ok evaluated twice on a handle whose tail failed.
C10_Witness ==
    /\ pc = "handle"
    /\ Len(okLog) = 2
    /\ okLog[2] = FALSE
    /\ Last(procs).status = Some(1)

IsReservedVar(word) == Len(word) >= 2 /\ word[1] = "$" /\ word[2] = "_"
Elems(seq) == {seq[k] : k \in 1..Len(seq)}

\* C11: a word $_cwd or $_env in the pipeline string is not expanded to the
\* value of the reserved binding of that name: no argument of the process
\* spawned for its segment is that value.
C11_ReservedNotSubstituted ==
    \A k \in 1..Len(procs) :
        LET words == Words(commands, procs[k].seg)
        IN  \A j \in 1..Len(words) :
              (IsReservedVar(words[j]) /\ Tail(words[j]) \in DOMAIN kwargs) =>
                 LET value == kwargs[Tail(words[j])]
                     given == IF IsStr(value) THEN {value.str}
                              ELSE Elems(value.list)
                 IN  Elems(procs[k].args) \cap given = {}

\* C12: when Popen fails for a segment, the failure leaves sh at once: no
\* process exists for that or a later segment, nothing is returned, and no
\* process spawned before has been waited on by sh.
C12_SpawnFailureSurfaced ==
    error = "spawn" =>
        /\ pc = "raised"
        /\ i < Len(commands) /\ Len(Words(commands, i)) > 0
        /\ \A k \in 1..Len(procs) :
             procs[k].seg < i /\ procs[k].returncode = None
        /\ retval = None
        /\ hstdin = NoStream /\ hstdout = NoStream
        /\ waitLog = <<>> /\ ncalls = 0

\* The second spawn failed while the first process is still running.
C12_Witness ==
    /\ error = "spawn"
    /\ Len(procs) = 1
    /\ procs[1].status = None
    /\ i = 1

\* C13: reading returncode before any wait() yields None; reading it changes
\* no process; after wait() has returned it is the tail's exit status.
C13_ReturncodeRead ==
    /\ [](pc = "handle" /\ call = "returncode" =>
            IF waitLog = <<>> THEN retval = None
            ELSE retval # None /\ retval = Last(procs).status)
    /\ [][(pc = "handle" /\ pc' = "handle" /\ ncalls' = ncalls + 1) =>
            procs' = procs /\ waitLog' = waitLog]_vars

\* returncode read as None before any wait, although the tail has already
\* terminated.
C13_Witness ==
    /\ pc = "handle"
    /\ call = "returncode"
    /\ waitLog = <<>>
    /\ retval = None
    /\ Last(procs).status = Some(1)

\* The segments before index n that have at least one word.
WordedBelow(n) == {j \in 0..(n - 1) : Len(Words(commands, j)) > 0}

\* C14: as long as no spawn has failed, exactly one process has been spawned
\* for each segment with words handled so far, in segment order, none for a
\* segment without words, and its argument vector is the expansion of the
\* segment's words.
C14_OneProcessPerWordedSegment ==
    error # "spawn" =>
        /\ {procs[k].seg : k \in 1..Len(procs)} = WordedBelow(i)
        /\ Len(procs) = Cardinality(WordedBelow(i))
        /\ \A k \in 1..(Len(procs) - 1) : procs[k].seg < procs[k + 1].seg
        /\ \A k \in 1..Len(procs) :
             procs[k].args = expandvars(Words(commands, procs[k].seg), kwargs)

\* "|$a|" with a bound to two words: both open segments spawn nothing and
\* the middle one is spawned with two arguments.
C14_Witness ==
    /\ LoopDone
    /\ headpipe /\ tailpipe
    /\ Len(procs) = 1
    /\ procs[1].seg = 1
    /\ Len(procs[1].args) = 2

\* C15: no stream end is held open by two parties at once; once the
\* consumer of an interior pipe is spawned, the read end of that pipe is
\* held by the consumer only, the builder's handle to it being closed.
C15_SingleOwnership ==
    \A k \in 1..Len(procs) :
        /\ Cardinality(Holders(procs, ReadEnd(k))) <= 1
        /\ Cardinality(Holders(procs, WriteEnd(k))) <= 1
        /\ k < Len(procs) => ~CallerHolds(procs, ReadEnd(k))

\* C16: in blocking mode, with a downstream process that exits while its
\* upstream producer is still writing, and a producer that terminates once
\* no open read end of its pipe remains, the waits all complete and sh
\* returns.
C16_BlockingTerminates == (pc = "blockwait") ~> (pc = "returned")

Min(a, b) == IF a <= b THEN a ELSE b

\* The Popen calls this run has made: one per process, and the one that
\* raised.
PopenCalls ==
    [k \in 1..Len(procs) |->
        <<procs[k].seg, procs[k].stdin_arg, procs[k].stdout_arg>>]
    \o (IF error = "spawn"
        THEN <<PopenCall(loopState, i, Len(commands))>> ELSE <<>>)

\* The run of sh on the same string under other bindings.
OtherRun(kw) ==
    RunSpawnable(commands, kw, 0, LoopState(<<>>, FALSE, FALSE, 0), <<>>)

\* This run's failed spawn, if any, is one the bindings account for.
NoOutsideFailure ==
    error = "spawn" => ~Spawnable(expandvars(Words(commands, i), kwargs))

\* A str binding value is one whole argument: in a segment without
\* sequence-valued variables the arguments match the words one to one.
ScalarsAreOneArgument ==
    \A k \in 1..Len(procs) :
        LET words == Words(commands, procs[k].seg)
            scalar(w) == ~StartsWithDollar(w) \/ Tail(w) \notin DOMAIN kwargs
                         \/ IsStr(kwargs[Tail(w)])
        IN  (\A j \in 1..Len(words) : scalar(words[j])) =>
                /\ Len(procs[k].args) = Len(words)
                /\ \A j \in 1..Len(words) :
                     (StartsWithDollar(words[j])
                      /\ Tail(words[j]) \in DOMAIN kwargs) =>
                         procs[k].args[j] = kwargs[Tail(words[j])].str

\* C17 as stated: for a fixed string, a run under any other bindings records
\* the same flags, attempts the same number of spawns for the same segments
\* with the same wiring, and prints the same number of warnings; a scalar
\* value is always exactly one argument.
C17_SameStructureAnyBindings ==
    (pc # "loop" /\ NoOutsideFailure) =>
        /\ \A kw \in Bindings :
             LET other == OtherRun(kw)
             IN  /\ PopenCalls = other.calls
                 /\ headpipe = other.st.headpipe
                 /\ tailpipe = other.st.tailpipe
                 /\ warnings = other.st.warnings
        /\ ScalarsAreOneArgument

\* C17 (amended): the same, up to the first spawn that fails in either run;
\* the bindings decide whether a spawn can succeed, and so how far a run
\* gets, and nothing else of the structure.
C17_SameStructureUpToFailure ==
    /\ \A kw \in Bindings :
         LET other == OtherRun(kw)
             both == Min(Len(PopenCalls), Len(other.calls))
         IN  /\ SubSeq(PopenCalls, 1, both) = SubSeq(other.calls, 1, both)
             /\ (LoopDone /\ ~other.failed) =>
                  /\ PopenCalls = other.calls
                  /\ Len(procs) = Len(other.st.procs)
                  /\ headpipe = other.st.headpipe
                  /\ tailpipe = other.st.tailpipe
                  /\ warnings = other.st.warnings
    /\ ScalarsAreOneArgument

\* "$a|a" with a bound to the str "a |": two processes, the first with
\* that str as its one argument.
C17_Witness ==
    /\ LoopDone
    /\ Len(procs) = 2
    /\ procs[1].args = <<<<"a", " ", "|">>>>
    /\ procs[2].stdin_arg = ReadEnd(1)
    /\ warnings = 0

\* C18: every Popen call of sh, the one that raised included, is given a
\* non-empty argument vector, whatever the bindings.
C18_NonEmptyArgv ==
    /\ \A k \in 1..Len(procs) : Len(procs[k].args) > 0
    /\ error = "spawn" =>
         Len(expandvars(Words(commands, i), kwargs)) > 0

\* C19: when sh takes the blocking branch the process list is not empty, so
\* procs[-1] at line 104 is defined; a string that spawns no process has
\* head-open recorded.
C19_BlockingHasProcess ==
    /\ pc \in {"blockwait", "returned"} => Len(procs) >= 1
    /\ (LoopDone /\ Len(procs) = 0) => headpipe
    /\ error = "IndexError" => headpipe

\* " a": one segment with a word, no flag, one process waited on.
C19_Witness ==
    /\ pc = "returned"
    /\ ~headpipe /\ ~tailpipe
    /\ Len(commands) = 1
    /\ Len(procs) = 1
    /\ retval = Some(1)
====
